---- MODULE Spec2Model ----
(***************************************************************************)
(* A model of rdotool (src/main.rs): the chord model, the chord parser,    *)
(* the character translator and the line interpreter that drives a uinput  *)
(* keyboard device with sleeps between events.                             *)
(*                                                                         *)
(* Text is modelled by TLA+ strings; a character is a string of length 1.  *)
(* The characters of the model are ASCII and U+212A KELVIN SIGN.  The      *)
(* grave accent cannot be written in a TLA+ string, so no input of the     *)
(* model contains it.                                                      *)
(* The uinput device is the environment: every press / release /           *)
(* synchronize call is recorded in `trace` together with its outcome, and  *)
(* the set `faults` holds the ordinals of the backend calls that the       *)
(* device answers with an error.  thread::sleep is recorded in `trace`     *)
(* as well, so that `trace` is the observable behaviour of a session.      *)
(***************************************************************************)
EXTENDS Integers, Sequences, FiniteSets, TLC

VARIABLES
    lines,      \* the input lines read from stdin so far, in order
    status,     \* "running" | "done" (run returned Ok) | "panicked"
    keydelay,   \* milliseconds
    keyhold,    \* milliseconds
    typedelay,  \* milliseconds
    typehold,   \* milliseconds
    trace,      \* backend calls and sleeps issued so far, in order
    ncalls,     \* number of backend calls issued so far
    stderr,     \* warnings written so far, in order
    faults,     \* ordinals of the backend calls that fail
    chord,      \* the chord under test of the chord-level specification
    last,       \* the last key_down / key_up invocation of that specification
    parsed      \* the tokens given to parse_chord so far, each with its result

vars == <<lines, status, keydelay, keyhold, typedelay, typehold,
          trace, ncalls, stderr, faults, chord, last, parsed>>

(***************************************************************************)
(* Bounds of the model.                                                    *)
(***************************************************************************)
MaxLines == 3        \* input lines per session
MaxFaultPos == 7     \* the failing backend call is among the first MaxFaultPos
MaxChordOps == 2     \* key_down / key_up invocations per chord-level run
MaxTokens == 2       \* tokens parsed per token-level run

(***************************************************************************)
(* Characters and strings.                                                 *)
(***************************************************************************)
Upper == "ABCDEFGHIJKLMNOPQRSTUVWXYZ"
Lower == "abcdefghijklmnopqrstuvwxyz"
Digits == "0123456789"

CharAt(s, i) == SubSeq(s, i, i)

CharsOf(s) == {CharAt(s, i) : i \in 1..Len(s)}

IndexIn(s, c) == CHOOSE i \in 1..Len(s) : CharAt(s, i) = c

\* U+212A KELVIN SIGN: an uppercase letter of three UTF-8 bytes whose
\* lowercase form is the ASCII letter k.  The module text cannot hold the
\* character itself; it is written as the character DEL (0x7F), which
\* stands for nothing else in the model.
KELVIN_SIGN == ""

\* char::is_uppercase, on the characters of the model
is_uppercase(c) == c \in CharsOf(Upper) \cup {KELVIN_SIGN}

\* char::is_whitespace, on the characters of the model
is_whitespace(c) == c \in {" ", "\t", "\n", "\r", "\f"}

\* char::len_utf8
len_utf8(c) == IF c = KELVIN_SIGN THEN 3 ELSE 1

\* str::len counts the bytes of the UTF-8 encoding, not the characters
RECURSIVE ByteLen(_)
ByteLen(s) == IF s = "" THEN 0 ELSE len_utf8(Head(s)) + ByteLen(Tail(s))

to_lowercase_char(c) ==
    IF c \in CharsOf(Upper) THEN CharAt(Lower, IndexIn(Upper, c))
    ELSE IF c = KELVIN_SIGN THEN "k"
    ELSE c

RECURSIVE to_lowercase(_)
to_lowercase(s) ==
    IF s = "" THEN "" ELSE to_lowercase_char(Head(s)) \o to_lowercase(Tail(s))

RECURSIVE trim_start(_)
trim_start(s) ==
    IF s # "" /\ is_whitespace(Head(s)) THEN trim_start(Tail(s)) ELSE s

RECURSIVE trim_end(_)
trim_end(s) ==
    IF s # "" /\ is_whitespace(CharAt(s, Len(s)))
    THEN trim_end(SubSeq(s, 1, Len(s) - 1))
    ELSE s

trim(s) == trim_end(trim_start(s))

\* str::split(sep): the segments between occurrences of sep; never empty
RECURSIVE SplitAcc(_, _, _, _)
SplitAcc(s, sep, cur, acc) ==
    IF s = "" THEN Append(acc, cur)
    ELSE IF Head(s) = sep THEN SplitAcc(Tail(s), sep, "", Append(acc, cur))
    ELSE SplitAcc(Tail(s), sep, cur \o Head(s), acc)

split(s, sep) == SplitAcc(s, sep, "", <<>>)

\* str::split_whitespace: the non-empty segments between whitespace
RECURSIVE SplitWsAcc(_, _, _)
SplitWsAcc(s, cur, acc) ==
    IF s = "" THEN (IF cur = "" THEN acc ELSE Append(acc, cur))
    ELSE IF is_whitespace(Head(s))
         THEN SplitWsAcc(Tail(s), "", IF cur = "" THEN acc ELSE Append(acc, cur))
    ELSE SplitWsAcc(Tail(s), cur \o Head(s), acc)

split_whitespace(s) == SplitWsAcc(s, "", <<>>)

\* position of the first whitespace character of s, 0 when there is none
FirstWs(s) ==
    IF \E i \in 1..Len(s) : is_whitespace(CharAt(s, i))
    THEN CHOOSE i \in 1..Len(s) :
            /\ is_whitespace(CharAt(s, i))
            /\ \A j \in 1..(i - 1) : ~is_whitespace(CharAt(s, j))
    ELSE 0

None == [some |-> FALSE, val |-> ""]
Some(v) == [some |-> TRUE, val |-> v]

\* The state of `parts` after the first parts.next() on a text that starts
\* with a non-whitespace character: the opcode, the remainder() of the
\* iterator (None once the underlying split has finished) and the fields
\* that further next() calls yield.
SplitOp(text) ==
    LET k == FirstWs(text) IN
    IF k = 0
    THEN [op |-> text, remainder |-> None, fields |-> <<>>]
    ELSE [op |-> SubSeq(text, 1, k - 1),
          remainder |-> Some(SubSeq(text, k + 1, Len(text))),
          fields |-> split_whitespace(SubSeq(text, k + 1, Len(text)))]

(***************************************************************************)
(* The key registry.  A Keyboard value is named by its variant.            *)
(***************************************************************************)
init_linux_keys ==
    "a" :> "A" @@ "b" :> "B" @@ "c" :> "C" @@ "d" :> "D" @@
    "e" :> "E" @@ "f" :> "F" @@ "g" :> "G" @@ "h" :> "H" @@
    "i" :> "I" @@ "j" :> "J" @@ "k" :> "K" @@ "l" :> "L" @@
    "m" :> "M" @@ "n" :> "N" @@ "o" :> "O" @@ "p" :> "P" @@
    "q" :> "Q" @@ "r" :> "R" @@ "s" :> "S" @@ "t" :> "T" @@
    "u" :> "U" @@ "v" :> "V" @@ "w" :> "W" @@ "x" :> "X" @@
    "y" :> "Y" @@ "z" :> "Z" @@ "0" :> "_0" @@ "1" :> "_1" @@
    "2" :> "_2" @@ "3" :> "_3" @@ "4" :> "_4" @@ "5" :> "_5" @@
    "6" :> "_6" @@ "7" :> "_7" @@ "8" :> "_8" @@ "9" :> "_9" @@
    "f1" :> "F1" @@ "f2" :> "F2" @@ "f3" :> "F3" @@ "f4" :> "F4" @@
    "f5" :> "F5" @@ "f6" :> "F6" @@ "f7" :> "F7" @@ "f8" :> "F8" @@
    "f9" :> "F9" @@ "f10" :> "F10" @@ "f11" :> "F11" @@ "f12" :> "F12" @@
    "f13" :> "F13" @@ "f14" :> "F14" @@ "f15" :> "F15" @@ "f16" :> "F16" @@
    "f17" :> "F17" @@ "f18" :> "F18" @@ "f19" :> "F19" @@ "f20" :> "F20" @@
    "f21" :> "F21" @@ "f22" :> "F22" @@ "f23" :> "F23" @@ "f24" :> "F24" @@
    "space" :> "Space" @@ "enter" :> "Enter" @@ "return" :> "Enter" @@ "tab" :> "Tab" @@
    "backspace" :> "BackSpace" @@ "escape" :> "Esc" @@ "esc" :> "Esc" @@ "delete" :> "Delete" @@
    "insert" :> "Insert" @@ "home" :> "Home" @@ "end" :> "End" @@ "pageup" :> "PageUp" @@
    "pagedown" :> "PageDown" @@ "pause" :> "Pause" @@ "scrolllock" :> "ScrollLock" @@ "sysrq" :> "SysRq" @@
    "print" :> "Print" @@ "left" :> "Left" @@ "right" :> "Right" @@ "up" :> "Up" @@
    "down" :> "Down" @@ "leftshift" :> "LeftShift" @@ "rightshift" :> "RightShift" @@ "leftctrl" :> "LeftControl" @@
    "rightctrl" :> "RightControl" @@ "leftalt" :> "LeftAlt" @@ "rightalt" :> "RightAlt" @@ "leftmeta" :> "LeftMeta" @@
    "rightmeta" :> "RightMeta" @@ "capslock" :> "CapsLock" @@ "numlock" :> "NumLock" @@ "minus" :> "Minus" @@
    "equal" :> "Equal" @@ "leftbrace" :> "LeftBrace" @@ "rightbrace" :> "RightBrace" @@ "semicolon" :> "SemiColon" @@
    "apostrophe" :> "Apostrophe" @@ "grave" :> "Grave" @@ "backslash" :> "BackSlash" @@ "comma" :> "Comma" @@
    "dot" :> "Dot" @@ "slash" :> "Slash"

linux_keys == init_linux_keys

(***************************************************************************)
(* Chord.                                                                  *)
(***************************************************************************)
Chord_new(key) ==
    [super_key |-> FALSE, altgr |-> FALSE, ctrl |-> FALSE, alt |-> FALSE,
     shift |-> FALSE, key |-> key]

(***************************************************************************)
(* The uinput device and the clock.  `dev` is the part of the state the    *)
(* backend calls act on; `line` and `field` say which input line and which *)
(* field (or character) of it an event was issued for.                     *)
(***************************************************************************)
Dev(tr, n, ln) == [trace |-> tr, ncalls |-> n, line |-> ln, field |-> 0]

Event(dev, op, key, ms, ok) ==
    [line |-> dev.line, field |-> dev.field, op |-> op, key |-> key,
     ms |-> ms, ok |-> ok]

\* Device::press / Device::release / Device::synchronize: the call is issued
\* and the device answers Ok or Err
BackendCall(dev, op, key) ==
    LET n == dev.ncalls + 1
        ok == n \notin faults
    IN [dev |-> [dev EXCEPT !.trace = Append(@, Event(dev, op, key, 0, ok)),
                            !.ncalls = n],
        ok |-> ok]

\* a call followed by `?`, after the calls that gave r: it is issued only
\* when none of them failed
Try(r, op, key) == IF r.ok THEN BackendCall(r.dev, op, key) ELSE r

\* thread::sleep(Duration::from_millis(ms))
sleep(dev, ms) ==
    [dev EXCEPT !.trace = Append(@, Event(dev, "sleep", "", ms, TRUE))]

\* key_down with the modifiers pressed in the order of key_up
key_down_reversed(self, dev) ==
    LET r0 == [dev |-> dev, ok |-> TRUE]
        r1 == IF self.shift THEN Try(r0, "press", "LeftShift") ELSE r0
        r2 == IF self.alt THEN Try(r1, "press", "LeftAlt") ELSE r1
        r3 == IF self.ctrl THEN Try(r2, "press", "LeftControl") ELSE r2
        r4 == IF self.altgr THEN Try(r3, "press", "RightAlt") ELSE r3
        r5 == IF self.super_key THEN Try(r4, "press", "LeftMeta") ELSE r4
        r6 == Try(r5, "press", self.key)
    IN Try(r6, "sync", "")

\* Chord::key_down
key_down(self, dev) ==
    LET r0 == [dev |-> dev, ok |-> TRUE]
        r1 == IF self.super_key THEN Try(r0, "press", "LeftMeta") ELSE r0
        r2 == IF self.altgr THEN Try(r1, "press", "RightAlt") ELSE r1
        r3 == IF self.ctrl THEN Try(r2, "press", "LeftControl") ELSE r2
        r4 == IF self.alt THEN Try(r3, "press", "LeftAlt") ELSE r3
        r5 == IF self.shift THEN Try(r4, "press", "LeftShift") ELSE r4
        r6 == Try(r5, "press", self.key)
    IN Try(r6, "sync", "")

\* key_up with the modifiers released before the base key
key_up_key_last(self, dev) ==
    LET r0 == [dev |-> dev, ok |-> TRUE]
        r1 == IF self.shift THEN Try(r0, "release", "LeftShift") ELSE r0
        r2 == IF self.alt THEN Try(r1, "release", "LeftAlt") ELSE r1
        r3 == IF self.ctrl THEN Try(r2, "release", "LeftControl") ELSE r2
        r4 == IF self.altgr THEN Try(r3, "release", "RightAlt") ELSE r3
        r5 == IF self.super_key THEN Try(r4, "release", "LeftMeta") ELSE r4
        r6 == Try(r5, "release", self.key)
    IN Try(r6, "sync", "")

\* Chord::key_up
key_up(self, dev) ==
    LET r0 == [dev |-> dev, ok |-> TRUE]
        r1 == Try(r0, "release", self.key)
        r2 == IF self.shift THEN Try(r1, "release", "LeftShift") ELSE r1
        r3 == IF self.alt THEN Try(r2, "release", "LeftAlt") ELSE r2
        r4 == IF self.ctrl THEN Try(r3, "release", "LeftControl") ELSE r3
        r5 == IF self.altgr THEN Try(r4, "release", "RightAlt") ELSE r4
        r6 == IF self.super_key THEN Try(r5, "release", "LeftMeta") ELSE r5
    IN Try(r6, "sync", "")

(***************************************************************************)
(* parse_chord.                                                            *)
(***************************************************************************)
Ok(v) == [ok |-> TRUE, val |-> v, err |-> ""]
Err(e) == [ok |-> FALSE, val |-> "", err |-> e]

\* the modifier loop with every naming of a modifier flipping its flag
RECURSIVE ParseModifiers_toggle(_, _, _)
ParseModifiers_toggle(parts, i, c) ==
    IF i > Len(parts) - 1 THEN Ok(c)
    ELSE LET m == to_lowercase(parts[i]) IN
         IF m = "super"
         THEN ParseModifiers_toggle(parts, i + 1, [c EXCEPT !.super_key = ~@])
         ELSE IF m = "altgr"
         THEN ParseModifiers_toggle(parts, i + 1, [c EXCEPT !.altgr = ~@])
         ELSE IF m \in {"ctrl", "control"}
         THEN ParseModifiers_toggle(parts, i + 1, [c EXCEPT !.ctrl = ~@])
         ELSE IF m = "alt"
         THEN ParseModifiers_toggle(parts, i + 1, [c EXCEPT !.alt = ~@])
         ELSE IF m = "shift"
         THEN ParseModifiers_toggle(parts, i + 1, [c EXCEPT !.shift = ~@])
         ELSE Err("unknown modifier")

\* the `for i in 0..parts.len() - 1` loop, from segment i on
RECURSIVE ParseModifiers(_, _, _)
ParseModifiers(parts, i, c) ==
    IF i > Len(parts) - 1 THEN Ok(c)
    ELSE LET m == to_lowercase(parts[i]) IN
         IF m = "super" THEN ParseModifiers(parts, i + 1, [c EXCEPT !.super_key = TRUE])
         ELSE IF m = "altgr" THEN ParseModifiers(parts, i + 1, [c EXCEPT !.altgr = TRUE])
         ELSE IF m \in {"ctrl", "control"}
              THEN ParseModifiers(parts, i + 1, [c EXCEPT !.ctrl = TRUE])
         ELSE IF m = "alt" THEN ParseModifiers(parts, i + 1, [c EXCEPT !.alt = TRUE])
         ELSE IF m = "shift" THEN ParseModifiers(parts, i + 1, [c EXCEPT !.shift = TRUE])
         ELSE Err("unknown modifier")

parse_chord(chord_str) ==
    LET parts == split(chord_str, "+") IN
    IF Len(parts) = 0 THEN Err("empty chord")
    ELSE LET key_part == parts[Len(parts)] IN
         IF to_lowercase(key_part) \notin DOMAIN linux_keys
         THEN Err("impossible key for layout")
         ELSE LET c0 == Chord_new(linux_keys[to_lowercase(key_part)])
                  c1 == IF ByteLen(key_part) = 1 /\ is_uppercase(Head(key_part))
                        THEN [c0 EXCEPT !.shift = TRUE]
                        ELSE c0
              IN ParseModifiers(parts, 1, c1)

(***************************************************************************)
(* char_to_chord.                                                          *)
(***************************************************************************)
Unshifted ==
    " " :> "space" @@ "\n" :> "enter" @@ "\t" :> "tab" @@ "-" :> "minus" @@
    "=" :> "equal" @@ "[" :> "leftbrace" @@ "]" :> "rightbrace" @@
    ";" :> "semicolon" @@ "'" :> "apostrophe" @@
    "\\" :> "backslash" @@ "," :> "comma" @@ "." :> "dot" @@ "/" :> "slash"

Shifted ==
    "!" :> "1" @@ "@" :> "2" @@ "#" :> "3" @@ "$" :> "4" @@ "%" :> "5" @@
    "^" :> "6" @@ "&" :> "7" @@ "*" :> "8" @@ "(" :> "9" @@ ")" :> "0" @@
    "_" :> "minus" @@ "+" :> "equal" @@ "{" :> "leftbrace" @@
    "}" :> "rightbrace" @@ ":" :> "semicolon" @@ "\"" :> "apostrophe" @@
    "~" :> "grave" @@ "|" :> "backslash" @@ "<" :> "comma" @@ ">" :> "dot" @@
    "?" :> "slash"

\* the match on ch of char_to_chord: (key_str, needs_shift), or None
CharTable(ch) ==
    IF ch \in CharsOf(Lower) THEN Some(<<ch, FALSE>>)
    ELSE IF ch \in CharsOf(Upper) THEN Some(<<to_lowercase(ch), TRUE>>)
    ELSE IF ch \in CharsOf(Digits) THEN Some(<<ch, FALSE>>)
    ELSE IF ch \in DOMAIN Unshifted THEN Some(<<Unshifted[ch], FALSE>>)
    ELSE IF ch \in DOMAIN Shifted THEN Some(<<Shifted[ch], TRUE>>)
    ELSE None

\* char_to_chord without the shift of the shifted characters
char_to_chord_no_shift(ch) ==
    LET e == CharTable(ch) IN
    IF ~e.some THEN None
    ELSE IF e.val[1] \notin DOMAIN linux_keys THEN None
    ELSE Some(Chord_new(linux_keys[e.val[1]]))

char_to_chord(ch) ==
    LET e == CharTable(ch) IN
    IF ~e.some THEN None
    ELSE IF e.val[1] \notin DOMAIN linux_keys THEN None
    ELSE Some([Chord_new(linux_keys[e.val[1]]) EXCEPT !.shift = e.val[2]])

(***************************************************************************)
(* str::parse::<f64> followed by `as u64`.  A parsed float is kept as its  *)
(* sign and the integer part of its magnitude, which is all that the       *)
(* saturating cast to u64 reads.  Decimal literals of the model are short  *)
(* enough to be exact.                                                     *)
(***************************************************************************)
IsDigits(s) == \A i \in 1..Len(s) : CharAt(s, i) \in CharsOf(Digits)

RECURSIVE DigitsValue(_)
DigitsValue(s) ==
    IF s = "" THEN 0
    ELSE DigitsValue(SubSeq(s, 1, Len(s) - 1)) * 10
         + (IndexIn(Digits, CharAt(s, Len(s))) - 1)

RECURSIVE Pow10(_)
Pow10(n) == IF n = 0 THEN 1 ELSE 10 * Pow10(n - 1)

\* position of the first character of s that is in set cs, 0 when none
FirstOf(s, cs) ==
    IF \E i \in 1..Len(s) : CharAt(s, i) \in cs
    THEN CHOOSE i \in 1..Len(s) :
            /\ CharAt(s, i) \in cs
            /\ \A j \in 1..(i - 1) : CharAt(s, j) \notin cs
    ELSE 0

HasSign(s) == s # "" /\ Head(s) \in {"+", "-"}
Unsigned(s) == IF HasSign(s) THEN Tail(s) ELSE s

\* the largest u64, which exceeds the integers TLC can represent
U64_MAX == "u64::MAX"

\* the integer part of the decimal ip.fp * 10^e
IntPart(ip, fp, e) ==
    LET d == ip \o fp
        p == Len(ip) + e
    IN IF p <= 0 THEN 0
       ELSE IF p <= Len(d) THEN DigitsValue(SubSeq(d, 1, p))
       ELSE DigitsValue(d) * Pow10(p - Len(d))

parse_f64(s) ==
    LET neg == HasSign(s) /\ Head(s) = "-"
        u == Unsigned(s)
        k == FirstOf(u, {"e", "E"})
        mant == IF k = 0 THEN u ELSE SubSeq(u, 1, k - 1)
        ex == IF k = 0 THEN "" ELSE SubSeq(u, k + 1, Len(u))
        dot == FirstOf(mant, {"."})
        ip == IF dot = 0 THEN mant ELSE SubSeq(mant, 1, dot - 1)
        fp == IF dot = 0 THEN "" ELSE SubSeq(mant, dot + 1, Len(mant))
        exneg == HasSign(ex) /\ Head(ex) = "-"
        exd == Unsigned(ex)
    IN IF to_lowercase(u) \in {"inf", "infinity"}
       THEN Ok([kind |-> "inf", neg |-> neg, int |-> 0])
       ELSE IF to_lowercase(u) = "nan"
       THEN Ok([kind |-> "nan", neg |-> neg, int |-> 0])
       ELSE IF ~(IsDigits(ip) /\ IsDigits(fp) /\ Len(ip) + Len(fp) >= 1)
       THEN Err("invalid float literal")
       ELSE IF k # 0 /\ ~(exd # "" /\ IsDigits(exd))
       THEN Err("invalid float literal")
       ELSE Ok([kind |-> "finite", neg |-> neg,
                int |-> IntPart(ip, fp, IF exneg THEN 0 - DigitsValue(exd)
                                        ELSE DigitsValue(exd))])

\* the cast keeping the sign of the number
as_u64_signed(d) ==
    IF d.kind = "nan" THEN 0
    ELSE IF d.kind = "inf" THEN U64_MAX
    ELSE IF d.neg THEN 0 - d.int
    ELSE d.int

\* `d as u64`: truncates towards zero and saturates; NaN is 0
as_u64(d) ==
    IF d.kind = "nan" THEN 0
    ELSE IF d.neg THEN 0
    ELSE IF d.kind = "inf" THEN U64_MAX
    ELSE d.int

(***************************************************************************)
(* The interpreter loop of run().  A line is processed in one step: the    *)
(* program reads the next line only after the handler of the current one   *)
(* has returned.                                                           *)
(***************************************************************************)
DefaultKeyDelay == 2
DefaultKeyHold == 8
DefaultTypeDelay == 2
DefaultTypeHold == 8

St(dev, err) == [dev |-> dev, stderr |-> err]

\* warn(msg)
warn(st, msg) == [st EXCEPT !.stderr = Append(@, msg)]

\* KeyField with the two sleeps exchanged
KeyField_swapped_sleeps(st, field, i) ==
    LET pc == parse_chord(field)
        d0 == [st.dev EXCEPT !.field = i]
    IN IF pc.ok
       THEN LET r1 == key_down(pc.val, d0)
                s1 == IF r1.ok THEN st ELSE warn(st, "key down error")
                d2 == sleep(r1.dev, keydelay)
                r3 == key_up(pc.val, d2)
                s3 == IF r3.ok THEN s1 ELSE warn(s1, "key up error")
                d4 == sleep(r3.dev, keyhold)
            IN St(d4, s3.stderr)
       ELSE warn(st, pc.err)

\* body of the `for field in parts` loop of "key", for field number i
KeyField(st, field, i) ==
    LET pc == parse_chord(field)
        d0 == [st.dev EXCEPT !.field = i]
    IN IF pc.ok
       THEN LET r1 == key_down(pc.val, d0)
                s1 == IF r1.ok THEN st ELSE warn(st, "key down error")
                d2 == sleep(r1.dev, keyhold)
                r3 == key_up(pc.val, d2)
                s3 == IF r3.ok THEN s1 ELSE warn(s1, "key up error")
                d4 == sleep(r3.dev, keydelay)
            IN St(d4, s3.stderr)
       ELSE warn(st, pc.err)

\* the body of the loop of "keydown" acting as the one of "key"
KeyDownField_releases(st, field, i) == KeyField(st, field, i)

\* body of the loop of "keydown"
KeyDownField(st, field, i) ==
    LET pc == parse_chord(field)
        d0 == [st.dev EXCEPT !.field = i]
    IN IF pc.ok
       THEN LET r1 == key_down(pc.val, d0)
                s1 == IF r1.ok THEN st ELSE warn(st, "key down error")
                d2 == sleep(r1.dev, keydelay)
            IN St(d2, s1.stderr)
       ELSE warn(st, pc.err)

\* body of the loop of "keyup"
KeyUpField(st, field, i) ==
    LET pc == parse_chord(field)
        d0 == [st.dev EXCEPT !.field = i]
    IN IF pc.ok
       THEN LET r1 == key_up(pc.val, d0)
                s1 == IF r1.ok THEN st ELSE warn(st, "key up error")
                d2 == sleep(r1.dev, keydelay)
            IN St(d2, s1.stderr)
       ELSE warn(st, pc.err)

\* the body of the loop of "type" without the key_up of the character
TypeChar_holds(st, ch, i) ==
    LET tc == char_to_chord(ch)
        d0 == [st.dev EXCEPT !.field = i]
    IN IF tc.some
       THEN LET r1 == key_down(tc.val, d0)
            IN IF ~r1.ok
               THEN St(r1.dev, Append(st.stderr, "type error"))
               ELSE St(sleep(sleep(r1.dev, typehold), typedelay), st.stderr)
       ELSE warn(st, "cannot type character")

\* body of the `for ch in s.chars()` loop of "type", for character number i
TypeChar(st, ch, i) ==
    LET tc == char_to_chord(ch)
        d0 == [st.dev EXCEPT !.field = i]
    IN IF tc.some
       THEN LET r1 == key_down(tc.val, d0)
            IN IF ~r1.ok
               THEN St(r1.dev, Append(st.stderr, "type error"))
               ELSE LET d2 == sleep(r1.dev, typehold)
                        r3 == key_up(tc.val, d2)
                        s3 == IF r3.ok THEN st ELSE warn(st, "type error")
                        d4 == sleep(r3.dev, typedelay)
                    IN St(d4, s3.stderr)
       ELSE warn(st, "cannot type character")

\* the loop of "key" leaving the line at the first field that fails to parse
RECURSIVE KeyLoop_break(_, _, _)
KeyLoop_break(fields, i, st) ==
    IF i > Len(fields) THEN st
    ELSE IF ~parse_chord(fields[i]).ok THEN warn(st, parse_chord(fields[i]).err)
    ELSE KeyLoop_break(fields, i + 1, KeyField(st, fields[i], i))

\* the loop of "key" taking the fields from the last to the first
RECURSIVE KeyLoop_reversed(_, _, _)
KeyLoop_reversed(fields, i, st) ==
    IF i > Len(fields) THEN st
    ELSE KeyField(KeyLoop_reversed(fields, i + 1, st), fields[i], i)

RECURSIVE KeyLoop(_, _, _)
KeyLoop(fields, i, st) ==
    IF i > Len(fields) THEN st
    ELSE KeyLoop(fields, i + 1, KeyField(st, fields[i], i))

RECURSIVE KeyDownLoop(_, _, _)
KeyDownLoop(fields, i, st) ==
    IF i > Len(fields) THEN st
    ELSE KeyDownLoop(fields, i + 1, KeyDownField(st, fields[i], i))

RECURSIVE KeyUpLoop(_, _, _)
KeyUpLoop(fields, i, st) ==
    IF i > Len(fields) THEN st
    ELSE KeyUpLoop(fields, i + 1, KeyUpField(st, fields[i], i))

\* the loop of "type" leaving the line at the first untypeable character
RECURSIVE TypeLoop_break(_, _, _)
TypeLoop_break(s, i, st) ==
    IF i > Len(s) THEN st
    ELSE IF ~char_to_chord(CharAt(s, i)).some THEN warn(st, "cannot type character")
    ELSE TypeLoop_break(s, i + 1, TypeChar(st, CharAt(s, i), i))

RECURSIVE TypeLoop(_, _, _)
TypeLoop(s, i, st) ==
    IF i > Len(s) THEN st
    ELSE TypeLoop(s, i + 1, TypeChar(st, CharAt(s, i), i))

\* ParseDelay that never takes the new value
ParseDelay_keeps(s, cur) ==
    LET d == parse_f64(trim(s)) IN
    [delay |-> cur, warned |-> ~d.ok]

\* ParseDelay that clears the delay when the argument is no number
ParseDelay_clears(s, cur) ==
    LET d == parse_f64(trim(s)) IN
    IF d.ok THEN [delay |-> as_u64(d.val), warned |-> FALSE]
    ELSE [delay |-> 0, warned |-> TRUE]

\* the `match s.trim().parse::<f64>()` of "keydelay" and "typedelay": the
\* new value of the delay and whether a warning is written
ParseDelay(s, cur) ==
    LET d == parse_f64(trim(s)) IN
    IF d.ok THEN [delay |-> as_u64(d.val), warned |-> FALSE]
    ELSE [delay |-> cur, warned |-> TRUE]

\* The input lines of the model.  A session opens with any line of
\* InputLines and goes on with lines of LaterLines.
InputLines ==
    { "key ctrl+c", "key xyz+a b", "key a", "key a + B",
      "keydown shift+a", "  keyup shift+a x+y",
      "type Hi!", "type a\rB",
      "keydelay 50", "keydelay abc", "keydelay -5", "keydelay 1.5",
      "typedelay 1.5e1", "typedelay 5x", "typedelay -3",
      " \t",
      "bogus 1",
      "key", "keydown", "keyup", "type", "keydelay", "typedelay",
      "type ", "keydelay " }

LaterLines ==
    { "key a", "  keyup shift+a x+y", "type Hi!", "keydelay abc",
      "keydelay 1.5", "typedelay 5x", "bogus 1" }

InputAt(k) == IF k = 1 THEN InputLines ELSE LaterLines

\* the lines that stdin may hold next
NextLines == InputAt(Len(lines) + 1)

Reading == status = "running" /\ Len(lines) < MaxLines

Cmd(line) == SplitOp(trim_start(line))

IsOp(line, op) == trim_start(line) # "" /\ Cmd(line).op = op

Start == St(Dev(trace, ncalls, Len(lines) + 1), stderr)

Commit(line, st) ==
    /\ lines' = Append(lines, line)
    /\ trace' = st.dev.trace
    /\ ncalls' = st.dev.ncalls
    /\ stderr' = st.stderr

Panic(line) ==
    /\ lines' = Append(lines, line)
    /\ status' = "panicked"
    /\ UNCHANGED <<keydelay, keyhold, typedelay, typehold, trace, ncalls,
                   stderr, faults, chord, last, parsed>>

\* `if text.is_empty() { continue; }`
BlankLine ==
    \E line \in NextLines :
    /\ Reading
    /\ trim_start(line) = ""
    /\ lines' = Append(lines, line)
    /\ UNCHANGED <<status, keydelay, keyhold, typedelay, typehold, trace,
                   ncalls, stderr, faults, chord, last, parsed>>

KeyLine ==
    \E line \in NextLines :
    /\ Reading
    /\ IsOp(line, "key")
    /\ Commit(line, KeyLoop(Cmd(line).fields, 1, Start))
    /\ UNCHANGED <<status, keydelay, keyhold, typedelay, typehold, faults,
                   chord, last, parsed>>

KeyDownLine ==
    \E line \in NextLines :
    /\ Reading
    /\ IsOp(line, "keydown")
    /\ Commit(line, KeyDownLoop(Cmd(line).fields, 1, Start))
    /\ UNCHANGED <<status, keydelay, keyhold, typedelay, typehold, faults,
                   chord, last, parsed>>

KeyUpLine ==
    \E line \in NextLines :
    /\ Reading
    /\ IsOp(line, "keyup")
    /\ Commit(line, KeyUpLoop(Cmd(line).fields, 1, Start))
    /\ UNCHANGED <<status, keydelay, keyhold, typedelay, typehold, faults,
                   chord, last, parsed>>

\* the "keydelay" branch storing the new delay in typedelay as well
KeyDelayLine_sets_both ==
    \E line \in NextLines :
    /\ Reading
    /\ IsOp(line, "keydelay")
    /\ IF ~Cmd(line).remainder.some
       THEN Panic(line)
       ELSE LET r == ParseDelay(Cmd(line).remainder.val, keydelay) IN
            /\ keydelay' = r.delay
            /\ typedelay' = r.delay
            /\ Commit(line, IF r.warned THEN warn(Start, "invalid delay") ELSE Start)
            /\ UNCHANGED <<status, keyhold, typehold, faults, chord, last,
                           parsed>>

KeyDelayLine ==
    \E line \in NextLines :
    /\ Reading
    /\ IsOp(line, "keydelay")
    /\ IF ~Cmd(line).remainder.some
       THEN Panic(line)
       ELSE LET r == ParseDelay(Cmd(line).remainder.val, keydelay) IN
            /\ keydelay' = r.delay
            /\ Commit(line, IF r.warned THEN warn(Start, "invalid delay") ELSE Start)
            /\ UNCHANGED <<status, keyhold, typedelay, typehold, faults,
                           chord, last, parsed>>

\* the "type" branch taking a missing payload for an empty one
TypeLine_skips ==
    \E line \in NextLines :
    /\ Reading
    /\ IsOp(line, "type")
    /\ Commit(line, IF Cmd(line).remainder.some
                    THEN TypeLoop(Cmd(line).remainder.val, 1, Start)
                    ELSE Start)
    /\ UNCHANGED <<status, keydelay, keyhold, typedelay, typehold,
                   faults, chord, last, parsed>>

TypeLine ==
    \E line \in NextLines :
    /\ Reading
    /\ IsOp(line, "type")
    /\ IF ~Cmd(line).remainder.some
       THEN Panic(line)
       ELSE /\ Commit(line, TypeLoop(Cmd(line).remainder.val, 1, Start))
            /\ UNCHANGED <<status, keydelay, keyhold, typedelay, typehold,
                           faults, chord, last, parsed>>

TypeDelayLine ==
    \E line \in NextLines :
    /\ Reading
    /\ IsOp(line, "typedelay")
    /\ IF ~Cmd(line).remainder.some
       THEN Panic(line)
       ELSE LET r == ParseDelay(Cmd(line).remainder.val, typedelay) IN
            /\ typedelay' = r.delay
            /\ Commit(line, IF r.warned THEN warn(Start, "invalid delay") ELSE Start)
            /\ UNCHANGED <<status, keydelay, keyhold, typehold, faults,
                           chord, last, parsed>>

Opcodes == {"key", "keydown", "keyup", "keydelay", "type", "typedelay"}

\* the dispatch skipping a line of unknown opcode
UnknownLine_skips ==
    \E line \in NextLines :
    /\ Reading
    /\ trim_start(line) # ""
    /\ Cmd(line).op \notin Opcodes
    /\ lines' = Append(lines, line)
    /\ UNCHANGED <<status, keydelay, keyhold, typedelay, typehold, trace,
                   ncalls, stderr, faults, chord, last, parsed>>

\* `_ => panic!("Unknown operation")`
UnknownLine ==
    \E line \in NextLines :
    /\ Reading
    /\ trim_start(line) # ""
    /\ Cmd(line).op \notin Opcodes
    /\ Panic(line)

\* reader.lines() is exhausted: run returns Ok(())
EndOfInput ==
    /\ status = "running"
    /\ status' = "done"
    /\ UNCHANGED <<lines, keydelay, keyhold, typedelay, typehold, trace,
                   ncalls, stderr, faults, chord, last, parsed>>

\* at most one backend call of a run fails, one of the first MaxFaultPos
FaultPlans == {{}} \cup {{k} : k \in 1..MaxFaultPos}

NoOp == [fn |-> "none", n |-> 0, first |-> 1, ok |-> TRUE]

Init ==
    /\ lines = <<>>
    /\ status = "running"
    /\ keydelay = DefaultKeyDelay
    /\ keyhold = DefaultKeyHold
    /\ typedelay = DefaultTypeDelay
    /\ typehold = DefaultTypeHold
    /\ trace = <<>>
    /\ ncalls = 0
    /\ stderr = <<>>
    /\ faults \in FaultPlans
    /\ chord = Chord_new("A")
    /\ last = NoOp
    /\ parsed = <<>>

Next ==
    \/ BlankLine
    \/ KeyLine
    \/ KeyDownLine
    \/ KeyUpLine
    \/ KeyDelayLine
    \/ TypeLine
    \/ TypeDelayLine
    \/ UnknownLine
    \/ EndOfInput

Spec == Init /\ [][Next]_vars

(***************************************************************************)
(* The chord-level specification: key_down and key_up applied to one       *)
(* chord, drawn from every combination of the five flags.                  *)
(***************************************************************************)
ChordKeys == {"C", "LeftShift"}

AllChords ==
    [super_key : BOOLEAN, altgr : BOOLEAN, ctrl : BOOLEAN, alt : BOOLEAN,
     shift : BOOLEAN, key : ChordKeys]

ChordInit ==
    /\ lines = <<>>
    /\ status = "running"
    /\ keydelay = DefaultKeyDelay
    /\ keyhold = DefaultKeyHold
    /\ typedelay = DefaultTypeDelay
    /\ typehold = DefaultTypeHold
    /\ trace = <<>>
    /\ ncalls = 0
    /\ stderr = <<>>
    /\ faults \in FaultPlans
    /\ chord \in AllChords
    /\ last = NoOp
    /\ parsed = <<>>

Invoked(fn, r) ==
    /\ trace' = r.dev.trace
    /\ ncalls' = r.dev.ncalls
    /\ last' = [fn |-> fn, n |-> last.n + 1, first |-> Len(trace) + 1, ok |-> r.ok]
    /\ UNCHANGED <<lines, status, keydelay, keyhold, typedelay, typehold,
                   stderr, faults, chord, parsed>>

PressChord ==
    /\ last.n < MaxChordOps
    /\ Invoked("key_down", key_down(chord, Dev(trace, ncalls, last.n + 1)))

ReleaseChord ==
    /\ last.n < MaxChordOps
    /\ Invoked("key_up", key_up(chord, Dev(trace, ncalls, last.n + 1)))

ChordNext == PressChord \/ ReleaseChord

ChordSpec == ChordInit /\ [][ChordNext]_vars

(***************************************************************************)
(* The token-level specification: parse_chord applied to chord tokens.     *)
(***************************************************************************)
Tokens ==
    { "a", "A", "K", "1", "F1", "Enter", KELVIN_SIGN,
      "ctrl+c", "CTRL+C", "Control+c", "shift+a", "shift+A", "Shift+ESC",
      "ctrl+" \o KELVIN_SIGN,
      "super+altgr+ctrl+alt+shift+f1", "altgr+super+k", "super+altgr+k",
      "alt+ctrl+x", "ctrl+alt+x", "ctrl+ctrl+alt+x", "ALT+control+ctrl+x",
      "", "+", "ctrl+", "+a", "foo+a", "foo+ctrl+a", "xyz", "ctrl+xyz" }

ParseInit ==
    /\ lines = <<>>
    /\ status = "running"
    /\ keydelay = DefaultKeyDelay
    /\ keyhold = DefaultKeyHold
    /\ typedelay = DefaultTypeDelay
    /\ typehold = DefaultTypeHold
    /\ trace = <<>>
    /\ ncalls = 0
    /\ stderr = <<>>
    /\ faults = {}
    /\ chord = Chord_new("A")
    /\ last = NoOp
    /\ parsed = <<>>

\* parse_chord(token, &linux_keys)
ParseToken ==
    \E token \in Tokens :
    /\ Len(parsed) < MaxTokens
    /\ parsed' = Append(parsed, [token |-> token, result |-> parse_chord(token)])
    /\ UNCHANGED <<lines, status, keydelay, keyhold, typedelay, typehold,
                   trace, ncalls, stderr, faults, chord, last>>

ParseNext == ParseToken

ParseSpec == ParseInit /\ [][ParseNext]_vars

(***************************************************************************)
(* What the claims speak of.                                               *)
(***************************************************************************)
\* the calls and sleeps of tr, without the outcome and the place of each
Ev(tr) == [i \in 1..Len(tr) |-> <<tr[i].op, tr[i].key, tr[i].ms>>]

IsPrefix(s, t) == Len(s) <= Len(t) /\ SubSeq(t, 1, Len(s)) = s

ModifierKey ==
    [super_key |-> "LeftMeta", altgr |-> "RightAlt", ctrl |-> "LeftControl",
     alt |-> "LeftAlt", shift |-> "LeftShift"]

PressOrder == <<"super_key", "altgr", "ctrl", "alt", "shift">>
ReleaseOrder == <<"shift", "alt", "ctrl", "altgr", "super_key">>

\* the active modifiers of chord c, in the given order
Active(c, order) == SelectSeq(order, LAMBDA m : c[m])

ExpectedPress(c) ==
    [i \in 1..Len(Active(c, PressOrder)) |->
        <<"press", ModifierKey[Active(c, PressOrder)[i]], 0>>]
    \o << <<"press", c.key, 0>>, <<"sync", "", 0>> >>

ExpectedRelease(c) ==
    << <<"release", c.key, 0>> >>
    \o [i \in 1..Len(Active(c, ReleaseOrder)) |->
        <<"release", ModifierKey[Active(c, ReleaseOrder)[i]], 0>>]
    \o << <<"sync", "", 0>> >>

\* the calls of the last key_down / key_up invocation of ChordSpec
LastCalls == Ev(SubSeq(trace, last.first, Len(trace)))

\* C1: key_down issues press calls for the active modifiers in the order
\* super, altgr, ctrl, alt, shift, then the press of the base key, then one
\* synchronize, and no press for an inactive modifier: the calls issued are
\* always an initial part of that sequence, and all of it when key_down
\* returns Ok.
C1_PressOrder ==
    last.fn = "key_down" =>
        /\ IsPrefix(LastCalls, ExpectedPress(chord))
        /\ last.ok => LastCalls = ExpectedPress(chord)

C1_Witness ==
    /\ last.fn = "key_down"
    /\ last.ok
    /\ chord.super_key /\ chord.altgr /\ ~chord.ctrl /\ chord.alt /\ chord.shift
    /\ LastCalls = << <<"press", "LeftMeta", 0>>, <<"press", "RightAlt", 0>>,
                      <<"press", "LeftAlt", 0>>, <<"press", "LeftShift", 0>>,
                      <<"press", "C", 0>>, <<"sync", "", 0>> >>

\* C2: key_up issues the release of the base key first, then the releases of
\* the active modifiers in the order shift, alt, ctrl, altgr, super, then one
\* synchronize: the calls issued are always an initial part of that
\* sequence, and all of it when key_up returns Ok.
C2_ReleaseOrder ==
    last.fn = "key_up" =>
        /\ IsPrefix(LastCalls, ExpectedRelease(chord))
        /\ last.ok => LastCalls = ExpectedRelease(chord)

C2_Witness ==
    /\ last.fn = "key_up"
    /\ last.ok
    /\ chord.super_key /\ chord.altgr /\ chord.ctrl /\ ~chord.alt /\ chord.shift
    /\ LastCalls = << <<"release", "C", 0>>, <<"release", "LeftShift", 0>>,
                      <<"release", "LeftControl", 0>>, <<"release", "RightAlt", 0>>,
                      <<"release", "LeftMeta", 0>>, <<"sync", "", 0>> >>

\* C9: within one press sequence or one release sequence, a failing backend
\* call does not abort the rest: every call of the sequence, the final
\* synchronize included, is issued whatever the outcome of the earlier ones.
C9_NoShortCircuit ==
    /\ last.fn = "key_down" => LastCalls = ExpectedPress(chord)
    /\ last.fn = "key_up" => LastCalls = ExpectedRelease(chord)

(***************************************************************************)
(* Sessions.  Every reachable state is the state right after its last      *)
(* line, so a statement about the events of the last line read is a        *)
(* statement about every line of every session.                            *)
(***************************************************************************)
RECURSIVE Flatten(_)
Flatten(ss) == IF Len(ss) = 0 THEN <<>> ELSE Head(ss) \o Flatten(Tail(ss))

\* the events issued for input line n
LineEvents(n) == SelectSeq(trace, LAMBDA e : e.line = n)

\* no backend call issued for line n failed
NoFault(n) == \A i \in 1..Len(trace) : trace[i].line = n => trace[i].ok

LastIs(op) == Len(lines) > 0 /\ IsOp(lines[Len(lines)], op)
LastFields == Cmd(lines[Len(lines)]).fields
LastPayload == Cmd(lines[Len(lines)]).remainder
LastEvents == Ev(LineEvents(Len(lines)))
LastNoFault == NoFault(Len(lines))

Sleep(ms) == << <<"sleep", "", ms>> >>
KeyEvents(c) ==
    ExpectedPress(c) \o Sleep(keyhold) \o ExpectedRelease(c) \o Sleep(keydelay)
KeyDownEvents(c) == ExpectedPress(c) \o Sleep(keydelay)
KeyUpEvents(c) == ExpectedRelease(c) \o Sleep(keydelay)
TypeEvents(c) ==
    ExpectedPress(c) \o Sleep(typehold) \o ExpectedRelease(c) \o Sleep(typedelay)

\* the events of the fields that parse, each given by Events, in field order
OfValidFields(fields, Events(_)) ==
    Flatten([i \in 1..Len(fields) |->
        IF parse_chord(fields[i]).ok THEN Events(parse_chord(fields[i]).val)
        ELSE <<>>])

\* the events of the characters that translate, in character order
OfTypeable(s) ==
    Flatten([i \in 1..Len(s) |->
        IF char_to_chord(CharAt(s, i)).some
        THEN TypeEvents(char_to_chord(CharAt(s, i)).val)
        ELSE <<>>])

AllValid(fields) == \A i \in 1..Len(fields) : parse_chord(fields[i]).ok
AllTypeable(s) == \A i \in 1..Len(s) : char_to_chord(CharAt(s, i)).some

\* C3: a key line whose tokens all parse emits, for each token in order,
\* the press sequence, sleep(keyhold), the release sequence and
\* sleep(keydelay), and nothing else (no backend call failing); key ctrl+c
\* emits press(ctrl), press(c), sync, sleep(keyhold), release(c),
\* release(ctrl), sync, sleep(keydelay).
C3_KeyLine ==
    (LastIs("key") /\ AllValid(LastFields) /\ LastNoFault) =>
        /\ LastEvents = OfValidFields(LastFields, KeyEvents)
        /\ lines[Len(lines)] = "key ctrl+c" =>
              LastEvents = << <<"press", "LeftControl", 0>>, <<"press", "C", 0>>,
                              <<"sync", "", 0>>, <<"sleep", "", keyhold>>,
                              <<"release", "C", 0>>, <<"release", "LeftControl", 0>>,
                              <<"sync", "", 0>>, <<"sleep", "", keydelay>> >>

C3_Witness ==
    /\ lines = <<"key ctrl+c">>
    /\ LastNoFault
    /\ Len(trace) = 8
    /\ trace[4].op = "sleep" /\ trace[4].ms = DefaultKeyHold
    /\ trace[8].op = "sleep" /\ trace[8].ms = DefaultKeyDelay

\* C4: a type line emits, for each character of the raw remainder in order,
\* the press sequence of its chord, sleep(typehold), the release sequence
\* and sleep(typedelay) (every character typeable, no backend call failing);
\* type Hi! emits the chords shift+h, i, shift+1.
C4_TypeLine ==
    (LastIs("type") /\ LastPayload.some /\ AllTypeable(LastPayload.val)
     /\ LastNoFault) =>
        /\ LastEvents = OfTypeable(LastPayload.val)
        /\ lines[Len(lines)] = "type Hi!" =>
              LastEvents =
                 << <<"press", "LeftShift", 0>>, <<"press", "H", 0>>,
                    <<"sync", "", 0>>, <<"sleep", "", typehold>>,
                    <<"release", "H", 0>>, <<"release", "LeftShift", 0>>,
                    <<"sync", "", 0>>, <<"sleep", "", typedelay>>,
                    <<"press", "I", 0>>, <<"sync", "", 0>>,
                    <<"sleep", "", typehold>>,
                    <<"release", "I", 0>>, <<"sync", "", 0>>,
                    <<"sleep", "", typedelay>>,
                    <<"press", "LeftShift", 0>>, <<"press", "_1", 0>>,
                    <<"sync", "", 0>>, <<"sleep", "", typehold>>,
                    <<"release", "_1", 0>>, <<"release", "LeftShift", 0>>,
                    <<"sync", "", 0>>, <<"sleep", "", typedelay>> >>

C4_Witness ==
    /\ lines = <<"type Hi!">>
    /\ LastNoFault
    /\ Len(trace) = 22
    /\ trace[1].key = "LeftShift" /\ trace[2].key = "H" /\ trace[9].key = "I"
    /\ trace[16].key = "_1"

\* the number written in each keydelay line that holds a number, as
\* <<numerator, denominator>>
WrittenDelay ==
    "keydelay 50" :> <<50, 1>> @@ "keydelay -5" :> <<0 - 5, 1>> @@
    "keydelay 1.5" :> <<3, 2>>

\* the whole milliseconds of a written number, none for a negative one
WholeMillis(q) == IF q[1] < 0 THEN 0 ELSE q[1] \div q[2]

IsKeyEventLine(l) == IsOp(l, "key") \/ IsOp(l, "keydown") \/ IsOp(l, "keyup")

HasKeydelayBefore(n) == \E j \in 1..(n - 1) : lines[j] \in DOMAIN WrittenDelay

\* the number of the last keydelay line before line n that holds a number
KeydelayBefore(n) ==
    WrittenDelay[lines[CHOOSE j \in 1..(n - 1) :
        /\ lines[j] \in DOMAIN WrittenDelay
        /\ \A k \in (j + 1)..(n - 1) : lines[k] \notin DOMAIN WrittenDelay]]

\* the sleeps that line n makes as its keydelay: every sleep of a keydown or
\* keyup line, every second sleep of a key line
DelaySleeps(n) ==
    LET sl == SelectSeq(LineEvents(n), LAMBDA e : e.op = "sleep") IN
    IF IsOp(lines[n], "key")
    THEN {sl[i].ms : i \in {k \in 1..Len(sl) : k % 2 = 0}}
    ELSE {sl[i].ms : i \in 1..Len(sl)}

C6_BadTokenSkipped ==
    LET l == lines[Len(lines)] IN
    (Len(lines) > 0 /\ IsKeyEventLine(l) /\ ~AllValid(LastFields) /\ LastNoFault) =>
        /\ IsOp(l, "key") => LastEvents = OfValidFields(LastFields, KeyEvents)
        /\ IsOp(l, "keydown") => LastEvents = OfValidFields(LastFields, KeyDownEvents)
        /\ IsOp(l, "keyup") => LastEvents = OfValidFields(LastFields, KeyUpEvents)
        /\ \A i \in 1..Len(trace) :
              trace[i].line = Len(lines) => parse_chord(LastFields[trace[i].field]).ok
        /\ l = "key xyz+a b" =>
              LastEvents = << <<"press", "B", 0>>, <<"sync", "", 0>>,
                              <<"sleep", "", keyhold>>,
                              <<"release", "B", 0>>, <<"sync", "", 0>>,
                              <<"sleep", "", keydelay>> >>
        /\ l = "key a + B" =>
              LastEvents = KeyEvents(Chord_new("A"))
                           \o KeyEvents([Chord_new("B") EXCEPT !.shift = TRUE])

C6_Witness ==
    /\ lines = <<"key a + B">>
    /\ LastNoFault
    /\ {trace[i].field : i \in 1..Len(trace)} = {1, 3}
    /\ stderr = <<"impossible key for layout">>

\* C7: in a type line a character outside the translation table emits no
\* backend call and no sleep and does not abort the session, and the later
\* characters of the payload are typed in order (no backend call failing).
C7_BadCharSkipped ==
    (LastIs("type") /\ LastPayload.some /\ ~AllTypeable(LastPayload.val)
     /\ LastNoFault) =>
        /\ LastEvents = OfTypeable(LastPayload.val)
        /\ status # "panicked"
        /\ \A i \in 1..Len(trace) :
              trace[i].line = Len(lines) =>
                 char_to_chord(CharAt(LastPayload.val, trace[i].field)).some
        /\ lines[Len(lines)] = "type a\rB" =>
              LastEvents = TypeEvents(Chord_new("A"))
                           \o TypeEvents([Chord_new("B") EXCEPT !.shift = TRUE])

C7_Witness ==
    /\ lines = <<"type a\rB">>
    /\ LastNoFault
    /\ status = "running"
    /\ {trace[i].field : i \in 1..Len(trace)} = {1, 3}
    /\ stderr = <<"cannot type character">>

\* the keydelay and typedelay lines whose argument is no number
InvalidDelayLines == {"keydelay abc", "typedelay 5x", "keydelay "}

\* C8: a keydelay or typedelay line whose argument is not a valid number
\* leaves the four timing values as they were, emits no backend call, and
\* the session goes on.
C8_InvalidDelayKeeps ==
    [][(/\ Len(lines') = Len(lines) + 1
        /\ lines'[Len(lines')] \in InvalidDelayLines)
       => /\ <<keydelay, keyhold, typedelay, typehold>>'
               = <<keydelay, keyhold, typedelay, typehold>>
          /\ trace' = trace
          /\ ncalls' = ncalls
          /\ status' = "running"]_vars

C8_Witness ==
    /\ lines = <<"keydelay 50", "keydelay abc", "key a">>
    /\ keydelay = 50
    /\ DelaySleeps(3) = {50}
    /\ stderr = <<"invalid delay">>

\* event i belongs to the press sequence of its field: no sleep and no
\* release was issued for the field before it
InPressSequence(i) ==
    /\ trace[i].op \in {"press", "sync"}
    /\ \A j \in 1..(i - 1) :
          (trace[j].line = trace[i].line /\ trace[j].field = trace[i].field)
             => trace[j].op \notin {"sleep", "release"}

\* the press sequence of field f of line n reported a failure
PressFailed(n, f) ==
    \E i \in 1..Len(trace) :
        /\ trace[i].line = n /\ trace[i].field = f
        /\ InPressSequence(i) /\ ~trace[i].ok

\* C10: in a key or type line, when the press sequence of a chord reports a
\* failure, the release sequence of that chord is still issued, so every
\* key with a press call issued also gets a release call before the next
\* token or character.
C10_ReleasedAfterFailedPress ==
    (LastIs("key") \/ LastIs("type")) =>
        \A i \in 1..Len(trace) :
            (/\ trace[i].line = Len(lines)
             /\ trace[i].op = "press"
             /\ PressFailed(Len(lines), trace[i].field))
            => \E j \in (i + 1)..Len(trace) :
                  /\ trace[j].line = Len(lines)
                  /\ trace[j].field = trace[i].field
                  /\ trace[j].op = "release"
                  /\ trace[j].key = trace[i].key

\* line k is not blank and its first token is no opcode of the dispatch
UnknownOpcode(k) ==
    trim_start(lines[k]) # "" /\ Cmd(lines[k]).op \notin Opcodes

Segments(token) == split(token, "+")
KeySegment(token) == Segments(token)[Len(Segments(token))]
ModifierSegments(token) == SubSeq(Segments(token), 1, Len(Segments(token)) - 1)

ModifierNames == {"super", "altgr", "ctrl", "control", "alt", "shift"}

\* some modifier segment of the token is one of names, in any letter case
Names(token, names) ==
    \E i \in 1..Len(ModifierSegments(token)) :
        to_lowercase(ModifierSegments(token)[i]) \in names

\* every modifier segment is a modifier name and the key segment is in the
\* registry, both in any letter case
ValidToken(token) ==
    /\ \A i \in 1..Len(ModifierSegments(token)) :
          to_lowercase(ModifierSegments(token)[i]) \in ModifierNames
    /\ to_lowercase(KeySegment(token)) \in DOMAIN linux_keys

\* the key segment is one character, an uppercase letter
SingleUppercase(token) ==
    Len(KeySegment(token)) = 1 /\ is_uppercase(KeySegment(token))

\* the chord the token denotes
Denoted(token) ==
    [super_key |-> Names(token, {"super"}),
     altgr |-> Names(token, {"altgr"}),
     ctrl |-> Names(token, {"ctrl", "control"}),
     alt |-> Names(token, {"alt"}),
     shift |-> Names(token, {"shift"}) \/ SingleUppercase(token),
     key |-> linux_keys[to_lowercase(KeySegment(token))]]

\* C12: for every token whose modifier segments are all modifier names and
\* whose key segment is in the registry (in any letter case), parse_chord
\* succeeds, each flag of the result is true exactly when the token names
\* that modifier, except that shift is also true when the key segment is a
\* single uppercase letter, and the key is the registry entry of the
\* lowercased key segment.
C12_FlagsAsNamed ==
    \A i \in 1..Len(parsed) :
        ValidToken(parsed[i].token) =>
            /\ parsed[i].result.ok
            /\ parsed[i].result.val = Denoted(parsed[i].token)

\* C13: parse_chord of the empty token and of the token + fails with the
\* empty-chord error, not with the unresolved-key or the unknown-modifier
\* error.
C13_EmptyChordError ==
    \A i \in 1..Len(parsed) :
        parsed[i].token \in {"", "+"} =>
            /\ ~parsed[i].result.ok
            /\ parsed[i].result.err = "empty chord"

(***************************************************************************)
(* Order of the events of a session.                                       *)
(***************************************************************************)
\* the chord that field (or character) f of line l stands for
ChordOf(l, f) ==
    IF IsOp(l, "type")
    THEN char_to_chord(CharAt(Cmd(l).remainder.val, f)).val
    ELSE parse_chord(Cmd(l).fields[f]).val

\* the keys a chord presses and releases
KeysOf(c) ==
    {c.key} \cup {ModifierKey[m] : m \in {n \in DOMAIN ModifierKey : c[n]}}

\* event i was issued for a line that has been read and, when that is the
\* last line read, a press or release is of a key of the token or character
\* it was issued for
OfItsToken(i) ==
    /\ trace[i].line \in 1..Len(lines)
    /\ (trace[i].line = Len(lines) /\ trace[i].op \in {"press", "release"}) =>
          trace[i].key \in KeysOf(ChordOf(lines[trace[i].line], trace[i].field))

\* C14: the backend calls and sleeps are issued in line order and, within a
\* line, in token (or character) order: no event is followed by an event of
\* an earlier line or of an earlier token of its line, so every event of a
\* line precedes every event of the next line, and no event belongs to a
\* line that has not been read.
C14_LineThenTokenOrder ==
    /\ \A i \in 1..Len(trace) : OfItsToken(i)
    /\ \A i \in 1..(Len(trace) - 1) :
          \/ trace[i].line < trace[i + 1].line
          \/ /\ trace[i].line = trace[i + 1].line
             /\ trace[i].field <= trace[i + 1].field

C14_Witness ==
    /\ lines = <<"key a + B", "type Hi!">>
    /\ NoFault(1) /\ NoFault(2)
    /\ Len(LineEvents(1)) = 14
    /\ Len(LineEvents(2)) = 22
    /\ trace[14].op = "sleep" /\ trace[14].line = 1 /\ trace[14].field = 3
    /\ trace[15].op = "press" /\ trace[15].line = 2 /\ trace[15].field = 1

\* the operations of the events of the last line, and the lengths it sleeps
LastOps == {LineEvents(Len(lines))[i].op : i \in 1..Len(LineEvents(Len(lines)))}
LastSleeps == DelaySleeps(Len(lines))

\* C15: a keydown line emits, for each token that parses, the press sequence
\* of the chord followed by sleep(keydelay), and no release call; a keyup
\* line emits, for each token that parses, the release sequence followed by
\* sleep(keydelay), and no press call; all of their sleeps are of keydelay,
\* none of keyhold (the sequences in full when no backend call fails).
C15_KeyDownKeyUp ==
    /\ LastIs("keydown") =>
          /\ "release" \notin LastOps
          /\ LastSleeps \subseteq {keydelay}
          /\ LastNoFault => LastEvents = OfValidFields(LastFields, KeyDownEvents)
    /\ LastIs("keyup") =>
          /\ "press" \notin LastOps
          /\ LastSleeps \subseteq {keydelay}
          /\ LastNoFault => LastEvents = OfValidFields(LastFields, KeyUpEvents)

C15_Witness ==
    /\ lines = <<"keydown shift+a", "  keyup shift+a x+y">>
    /\ keydelay # keyhold
    /\ Ev(trace) = << <<"press", "LeftShift", 0>>, <<"press", "A", 0>>,
                      <<"sync", "", 0>>, <<"sleep", "", keydelay>>,
                      <<"release", "A", 0>>, <<"release", "LeftShift", 0>>,
                      <<"sync", "", 0>>, <<"sleep", "", keydelay>> >>

C17_NonNegative ==
    /\ keydelay >= 0
    /\ keyhold >= 0
    /\ typedelay >= 0
    /\ typehold >= 0

C17_Witness ==
    /\ lines = <<"keydelay -5", "key a">>
    /\ keydelay = 0
    /\ stderr = <<>>
    /\ Len(trace) = 6
    /\ trace[6] = [line |-> 2, field |-> 1, op |-> "sleep", key |-> "",
                    ms |-> 0, ok |-> TRUE]

\* the modifier a modifier name stands for
Modifier(name) == IF name = "control" THEN "ctrl" ELSE name

\* the set of modifiers the token names
NamedModifiers(token) ==
    {Modifier(to_lowercase(ModifierSegments(token)[i])) :
        i \in 1..Len(ModifierSegments(token))}

\* the calls of key_down and of key_up on chord c, on a fresh device
PressCalls(c) == Ev(key_down(c, Dev(<<>>, 0, 1)).dev.trace)
ReleaseCalls(c) == Ev(key_up(c, Dev(<<>>, 0, 1)).dev.trace)

\* tokens t and u have the same key segment and name the same modifiers
SameChordNamed(t, u) ==
    /\ KeySegment(t) = KeySegment(u)
    /\ NamedModifiers(t) = NamedModifiers(u)
    /\ NamedModifiers(t) \subseteq {"super", "altgr", "ctrl", "alt", "shift"}

\* C18: two tokens with the same key segment and the same set of named
\* modifiers, in any order and with any duplicates, have the same result of
\* parse_chord, and when it is a chord the press sequences of the two are
\* identical and so are the release sequences.
C18_OrderInsensitive ==
    \A i, j \in 1..Len(parsed) :
        SameChordNamed(parsed[i].token, parsed[j].token) =>
            /\ parsed[i].result.ok = parsed[j].result.ok
            /\ parsed[i].result.err = parsed[j].result.err
            /\ parsed[i].result.ok =>
                  /\ parsed[i].result.val = parsed[j].result.val
                  /\ PressCalls(parsed[i].result.val)
                        = PressCalls(parsed[j].result.val)
                  /\ ReleaseCalls(parsed[i].result.val)
                        = ReleaseCalls(parsed[j].result.val)

C18_Witness ==
    /\ Len(parsed) = 2
    /\ parsed[1].token = "ctrl+ctrl+alt+x"
    /\ parsed[2].token = "ALT+control+ctrl+x"
    /\ parsed[1].result.ok
    /\ parsed[2].result.val =
          [Chord_new("X") EXCEPT !.ctrl = TRUE, !.alt = TRUE]
    /\ PressCalls(parsed[1].result.val) =
          << <<"press", "LeftControl", 0>>, <<"press", "LeftAlt", 0>>,
             <<"press", "X", 0>>, <<"sync", "", 0>> >>

\* line k consists of one of the opcodes ops and nothing after it
LoneOpcode(k, ops) == trim_start(lines[k]) \in ops

\* line k aborted the session: it is the last line read and nothing was
\* issued for it
AbortedAt(k) ==
    /\ status = "panicked"
    /\ k = Len(lines)
    /\ LineEvents(k) = <<>>

\* C19 as claimed: a line that consists of any of the six opcodes alone
\* aborts the session, so no later line is processed.
C19_LoneOpcodeAborts ==
    \A k \in 1..Len(lines) : LoneOpcode(k, Opcodes) => AbortedAt(k)

\* C19: a line that consists of keydelay, type or typedelay alone aborts
\* the session, so no later line is processed; a line that consists of key,
\* keydown or keyup alone emits no event and does not abort the session,
\* which goes on with the next line.
C19_LoneOpcodeByKind ==
    \A k \in 1..Len(lines) :
        /\ LoneOpcode(k, {"keydelay", "type", "typedelay"}) => AbortedAt(k)
        /\ LoneOpcode(k, {"key", "keydown", "keyup"}) =>
              /\ LineEvents(k) = <<>>
              /\ k = Len(lines) => status # "panicked"

C19_Witness ==
    /\ lines = <<"keydown", "key a">>
    /\ status = "running"
    /\ faults = {}
    /\ Len(LineEvents(2)) = 6
    /\ stderr = <<>>

(***************************************************************************)
(* Keys held.                                                              *)
(***************************************************************************)
\* the keys that the events tr leave held: pressed and not released after
HeldAfter(tr) ==
    {tr[i].key : i \in {p \in 1..Len(tr) :
        /\ tr[p].op = "press"
        /\ \A r \in (p + 1)..Len(tr) :
              ~(tr[r].op = "release" /\ tr[r].key = tr[p].key)}}

\* the events issued for token (or character) f of line n
TokenEvents(n, f) == SelectSeq(trace, LAMBDA e : e.line = n /\ e.field = f)

NoFailedCall == \A i \in 1..Len(trace) : trace[i].ok

\* C20: when no backend call fails, every key and modifier that a token of
\* a key line or a character of a type line presses is released by the
\* events of that same token or character, and a key is held at a line
\* boundary only when the session has read a keydown line.
C20_Balanced ==
    NoFailedCall =>
        /\ \A n \in 1..Len(lines) :
              /\ IsOp(lines[n], "key") =>
                    \A f \in 1..Len(Cmd(lines[n]).fields) :
                        HeldAfter(TokenEvents(n, f)) = {}
              /\ IsOp(lines[n], "type") =>
                    \A f \in 1..Len(Cmd(lines[n]).remainder.val) :
                        HeldAfter(TokenEvents(n, f)) = {}
        /\ HeldAfter(trace) # {} =>
              \E k \in 1..Len(lines) : IsOp(lines[k], "keydown")

C20_Witness ==
    /\ lines = <<"key ctrl+c", "type Hi!", "key a">>
    /\ NoFailedCall
    /\ Len(trace) = 36
    /\ HeldAfter(SubSeq(trace, 1, 10)) = {"LeftShift", "H"}
    /\ HeldAfter(SubSeq(trace, 1, 16)) = {}
    /\ HeldAfter(trace) = {}

====
